---- MODULE Spec2Model ----
(***************************************************************************)
(* Model of the RMG News AI dashboard: the Home component of               *)
(* frontend/src/app/page.tsx and the API client it drives (api.ts).        *)
(*                                                                         *)
(* The React state of Home is the state of the model.  Every async handler *)
(* is a task: the code between two awaits runs without interleaving (one   *)
(* JavaScript thread), so each such segment is one action; the backend's   *)
(* answer to an awaited request is drawn nondeterministically when the     *)
(* request settles.                                                        *)
(***************************************************************************)
EXTENDS Integers, Sequences, FiniteSets, TLC

\* ------------------------------------------------------------------ bounds
\* handler invocations explored per behaviour
MaxActions == 3
\* handler runs that may overlap
MaxInFlight == 2
\* articles the backend puts on one page
MaxArticles == 2
\* handler invocations explored beside an enrichment batch
MaxBatchActions == 2
\* pages of the largest result set the pagination controls are checked on
MaxPagerPages == 8
\* page changes explored from each page
MaxPagerActions == 1
\* API-client calls in flight when the client is explored on its own
MaxClientCalls == 1

\* ------------------------------------------------------- program constants
articlesPerPage == 10
articlesPerSource == 15
WindowSize == 5

\* ----------------------------------------------------------- JS values
Null == "null"
Undefined == "undefined"
\* a string is a sequence of characters; an omitted string argument is this
UndefinedStr == <<"undefined">>

SourceIds == {"s1"}
Queries == {<<>>, <<" ">>, <<"q">>}

BackendDownMsg == "Backend server is not responding. Please ensure the backend is running on http://localhost:8000"
LoadFailedMsg == "Failed to load data. Please try again."
FetchFailedMsg == "Failed to fetch news. Please try again."
IngestFailedMsg == "Failed to fetch news from sources. Please try again."
SearchFailedMsg == "Failed to search news. Please try again."

\* ------------------------------------------------------------- helpers
IsSpace(c) == c = " "

RECURSIVE TrimStart(_)
TrimStart(s) == IF s # <<>> /\ IsSpace(Head(s)) THEN TrimStart(Tail(s)) ELSE s

RECURSIVE TrimEnd(_)
TrimEnd(s) ==
  IF s # <<>> /\ IsSpace(s[Len(s)]) THEN TrimEnd(SubSeq(s, 1, Len(s) - 1)) ELSE s

\* String.prototype.trim
Trim(s) == TrimEnd(TrimStart(s))

\* truthiness of an optional string: undefined and "" are falsy
Truthy(s) == s # UndefinedStr /\ s # <<>>

Min(a, b) == IF a <= b THEN a ELSE b

\* Math.ceil(total / articlesPerPage) on non-negative integers
CeilDiv(a, b) == IF a % b = 0 THEN a \div b ELSE (a \div b) + 1

\* variant for C9: Math.floor in place of Math.ceil
TotalPagesOf_Floor(total) == total \div articlesPerPage

TotalPagesOf(total) == CeilDiv(total, articlesPerPage)

\* ------------------------------------------------------------ API client
\* how one fetchWithTimeout attempt ends: a 2xx response, a non-2xx
\* response, a network error, or the abort fired by the deadline
FetchOutcomes == {"ok", "http", "network", "timeout"}

\* variant for C12: a failed attempt is followed by a second one
FetchAttempts_Retry(outcome) == IF outcome = "ok" THEN 1 ELSE 2

\* fetch() calls one fetchWithTimeout call makes before it settles: the one
\* before the await; the catch rethrows, nothing loops
FetchAttempts(outcome) == 1

\* every method but healthCheck: resolves on 2xx, throws otherwise
Resolves(outcome) == outcome = "ok"

\* api.healthCheck: response.ok, or false from the catch
HealthCheck(outcome) == outcome = "ok"

NoReq == [m |-> "none", query |-> UndefinedStr, page |-> 0, perPage |-> 0,
          source |-> Undefined, arg |-> 0]

HealthReq == [NoReq EXCEPT !.m = "healthCheck"]

GetSourcesReq == [NoReq EXCEPT !.m = "getSources"]

\* api.getNews: query and source are appended only when truthy
GetNews(query, page, perPage, source) ==
  [m |-> "getNews",
   query |-> IF Truthy(query) THEN query ELSE UndefinedStr,
   page |-> page, perPage |-> perPage,
   source |-> IF source # Undefined /\ source # "" THEN source ELSE Undefined,
   arg |-> 0]

GetNewsBySource(sourceId, page, perPage) ==
  [m |-> "getNewsBySource", query |-> UndefinedStr, page |-> page,
   perPage |-> perPage, source |-> sourceId, arg |-> 0]

FetchNewsFromSourcesReq(n) == [NoReq EXCEPT !.m = "fetchNewsFromSources", !.arg = n]

\* api.analyzeArticle(article.content, article.title); arg names the article
AnalyzeArticle(article) == [NoReq EXCEPT !.m = "analyzeArticle", !.arg = article.id]

\* ---------------------------------------------------------------- backend
\* The backend is outside the repository: what it answers is drawn from
\* these sets.  An article is identified by the request that listed it and
\* its position on the page.
Totals == {0, 20, 27}

ArticleId(req, i) == (((req.page * 2) + (IF req.source = Undefined THEN 0 ELSE 1)) * 2
                      + (IF req.query = UndefinedStr THEN 0 ELSE 1)) * 10 + i

\* NewsArticle as the list endpoints return it; the server may or may not
\* have filled the optional AI fields (here: even positions are processed)
ServerArticle(req, i) ==
  [id |-> ArticleId(req, i),
   ai_summary |-> IF i % 2 = 0 THEN "server summary" ELSE Null,
   market_impact |-> IF i % 2 = 0 THEN "server impact" ELSE Null,
   confidence_score |-> IF i % 2 = 0 THEN "server confidence" ELSE Null,
   aiSummary |-> Undefined, marketImpact |-> Undefined, confidence |-> Undefined]

\* NewsResponse for a list request: the reported total and a page that is
\* empty or holds the articles the server has for it
NewsResponses(req) ==
  UNION { { [articles |-> [i \in 1..n |-> ServerArticle(req, i)], total |-> t] :
              n \in {0, Min(MaxArticles, t)} } : t \in Totals }

\* NewsAnalysis answers of POST /api/analyze
Analyses ==
  { [key_insights |-> "insights", market_impact |-> "impact", agno_confidence |-> "0.9"] }

\* ------------------------------------------------------------------ state
VARIABLES
  searchQuery, newsArticles, sources, selectedSource, loading, fetchingNews,
  error, currentPage, totalPages, totalArticles,   \* useState of Home
  mounted,      \* the mount effect has run
  tasks,        \* handler runs suspended at an await, in the order they started
  last,         \* the last step of a handler: which run, whether it finished, what it got
  nActions,     \* handler invocations so far
  userActed     \* a search, source tab, page button or 'Fetch News' was used

view == <<searchQuery, newsArticles, sources, selectedSource, loading, fetchingNews,
          error, currentPage, totalPages, totalArticles>>

vars == <<searchQuery, newsArticles, sources, selectedSource, loading, fetchingNews,
          error, currentPage, totalPages, totalArticles, mounted, tasks, last,
          nActions, userActed>>

\* a handler run: the handler, the await it is suspended at, the arguments
\* and captured state it continues with (query: the query it searches with,
\* if any), the requests it has issued, and the HTTP attempts its settled
\* requests made
NewTask(kind, pc, sourceId, page, query, calls) ==
  [kind |-> kind, pc |-> pc, sourceId |-> sourceId, page |-> page, query |-> query,
   calls |-> calls, articles |-> <<>>, results |-> <<>>, fetches |-> 0]

\* the run after the request it awaited settled with outcome
Fetched(t, outcome) == [t EXCEPT !.fetches = @ + FetchAttempts(outcome)]

NoTask ==
  [kind |-> "none", pc |-> "none", sourceId |-> Undefined, page |-> 0,
   query |-> UndefinedStr, calls |-> <<>>, articles |-> <<>>, results |-> <<>>,
   fetches |-> 0]

NoStep == [op |-> "none", run |-> NoTask, done |-> FALSE, outcome |-> "none",
           total |-> 0, n |-> 0]

Step(op, run, done, outcome, total, n) ==
  [op |-> op, run |-> run, done |-> done, outcome |-> outcome, total |-> total, n |-> n]

Settled(outcome) == IF Resolves(outcome) THEN "resolved" ELSE "rejected"

Remove(s, i) == SubSeq(s, 1, i - 1) \o SubSeq(s, i + 1, Len(s))

Replace(s, i, x) == [s EXCEPT ![i] = x]

Init ==
  /\ searchQuery = <<>>
  /\ newsArticles = <<>>
  /\ sources = {}
  /\ selectedSource = "all"
  /\ loading = TRUE
  /\ fetchingNews = FALSE
  /\ error = Null
  /\ currentPage = 1
  /\ totalPages = 1
  /\ totalArticles = 0
  /\ mounted = FALSE
  /\ tasks = <<>>
  /\ last = NoStep
  /\ nActions = 0
  /\ userActed = FALSE

\* --------------------------------------------------------------- rendering
\* Home returns only the spinner while loading with no articles: no control
\* of the page exists then
ControlsRendered == ~(loading /\ newsArticles = <<>>)

CanStart == nActions < MaxActions /\ Len(tasks) < MaxInFlight

\* variant for C10: the window always centred, never clamped to the ends
PageNum_Unclamped(i, cur, total) == (cur - 2) + i

\* pageNum of the i-th page button (i from 0)
PageNum(i, cur, total) ==
  IF total <= WindowSize THEN i + 1
  ELSE IF cur <= 3 THEN i + 1
  ELSE IF cur >= total - 2 THEN (total - 4) + i
  ELSE (cur - 2) + i

\* the page buttons, left to right
PageButtons(cur, total) == [k \in 1..Min(WindowSize, total) |-> PageNum(k - 1, cur, total)]

PaginationRendered == totalPages > 1

PreviousEnabled == currentPage # 1

NextEnabled == currentPage # totalPages

\* the pages a click can pass to handlePageChange
ClickablePages ==
  IF ~PaginationRendered THEN {}
  ELSE {PageButtons(currentPage, totalPages)[k] : k \in 1..Min(WindowSize, totalPages)}
       \cup (IF PreviousEnabled THEN {currentPage - 1} ELSE {})
       \cup (IF NextEnabled THEN {currentPage + 1} ELSE {})

\* the source tabs: 'all' and one per key of sources
SourceTabs == {"all"} \cup sources

\* --------------------------------------------------------- fetchInitialData
\* variant for C1: the early return after a failed health check is missing
InitialCalls_NoReturn(isBackendHealthy) == <<GetSourcesReq>>

\* variant for C6: the initial sequence also loads the first page of news
InitialCalls_LoadsNews(isBackendHealthy) ==
  IF isBackendHealthy
  THEN <<GetSourcesReq, GetNews(UndefinedStr, 1, articlesPerPage, Undefined)>>
  ELSE <<>>

\* the requests the initial sequence issues once the health check answered
InitialCalls(isBackendHealthy) == IF isBackendHealthy THEN <<GetSourcesReq>> ELSE <<>>

\* the banner after the health check answered
ErrorAfterHealth(isBackendHealthy, cur) == IF isBackendHealthy THEN cur ELSE BackendDownMsg

\* variant for C2: no inner try, the outer catch fails the whole load
SourcesCatch_FailsLoad(cur) == [sources |-> {}, error |-> LoadFailedMsg]

\* the inner catch around getSources: empty map, banner untouched
SourcesCatch(cur) == [sources |-> {}, error |-> cur]

\* variant for C14: the initial sequence also goes back to the first page
FetchInitialDataStart_ResetsPage(counted) ==
  /\ loading' = TRUE
  /\ error' = Null
  /\ currentPage' = 1
  /\ tasks' = Append(tasks, NewTask("fetchInitialData", "healthCheck", Undefined, 0, UndefinedStr, <<HealthReq>>))
  /\ last' = Step("fetchInitialData", tasks'[Len(tasks')], FALSE, "none", 0, 0)
  /\ nActions' = nActions + counted
  /\ UNCHANGED <<searchQuery, newsArticles, sources, selectedSource, fetchingNews,
                 totalPages, totalArticles, userActed>>

\* fetchInitialData up to its first await
FetchInitialDataStart(counted) ==
  /\ loading' = TRUE
  /\ error' = Null
  /\ tasks' = Append(tasks, NewTask("fetchInitialData", "healthCheck", Undefined, 0, UndefinedStr, <<HealthReq>>))
  /\ last' = Step("fetchInitialData", tasks'[Len(tasks')], FALSE, "none", 0, 0)
  /\ nActions' = nActions + counted
  /\ UNCHANGED <<searchQuery, newsArticles, sources, selectedSource, fetchingNews,
                 currentPage, totalPages, totalArticles, userActed>>

\* useEffect(() => { fetchInitialData() }, [])
Mount ==
  /\ ~mounted
  /\ mounted' = TRUE
  /\ FetchInitialDataStart(0)

\* the banner's 'Try Again' button
TryAgain ==
  /\ mounted /\ ControlsRendered /\ error # Null /\ CanStart
  /\ UNCHANGED mounted
  /\ FetchInitialDataStart(1)

HealthSettle ==
  \E i \in 1..Len(tasks), outcome \in FetchOutcomes :
    LET t == tasks[i]
        healthy == HealthCheck(outcome)
        more == InitialCalls(healthy)
        t2 == [Fetched(t, outcome) EXCEPT
                 !.calls = t.calls \o more,
                 !.pc = IF healthy THEN "getSources" ELSE "healthCheck"]
    IN /\ t.kind = "fetchInitialData" /\ t.pc = "healthCheck"
       /\ error' = ErrorAfterHealth(healthy, error)
       /\ IF healthy
          THEN /\ tasks' = Replace(tasks, i, t2)
               /\ UNCHANGED loading
          ELSE /\ tasks' = Remove(tasks, i)
               /\ loading' = FALSE
       /\ last' = Step("healthCheck", t2, ~healthy, IF healthy THEN "true" ELSE "false", 0, 0)
       /\ UNCHANGED <<searchQuery, newsArticles, sources, selectedSource, fetchingNews,
                      currentPage, totalPages, totalArticles, mounted, nActions, userActed>>

SourcesSettle ==
  \E i \in 1..Len(tasks), outcome \in FetchOutcomes, keys \in SUBSET SourceIds :
    LET t == tasks[i]
        caught == SourcesCatch(error)
    IN /\ t.kind = "fetchInitialData" /\ t.pc = "getSources"
       /\ Resolves(outcome) \/ keys = {}
       /\ IF Resolves(outcome)
          THEN sources' = keys /\ UNCHANGED error
          ELSE sources' = caught.sources /\ error' = caught.error
       /\ loading' = FALSE
       /\ tasks' = Remove(tasks, i)
       /\ last' = Step("getSources", Fetched(t, outcome), TRUE, Settled(outcome), 0, 0)
       /\ UNCHANGED <<searchQuery, newsArticles, selectedSource, fetchingNews,
                      currentPage, totalPages, totalArticles, mounted, nActions, userActed>>

\* -------------------------------------------------------- fetchNewsBySource
\* variant for C8: the source id is ignored, every list request is unscoped
ListRequest_Unscoped(sourceId, page) == GetNews(UndefinedStr, page, articlesPerPage, Undefined)

\* the request fetchNewsBySource(sourceId, page) awaits
ListRequest(sourceId, page) ==
  IF sourceId = "all"
  THEN GetNews(UndefinedStr, page, articlesPerPage, Undefined)
  ELSE GetNewsBySource(sourceId, page, articlesPerPage)

\* variant for C19: the selected source is passed as it is, 'all' included
SearchSource_Always(selected) == selected

\* the source argument handleSearch and handlePageChange pass to getNews
SearchSource(selected) == IF selected = "all" THEN Undefined ELSE selected

\* variant for C7: the query is tested without trim()
HasQuery_NoTrim(q) == q # <<>>

\* handleSearch / handlePageChange: is there a query to search with
HasQuery(q) == Trim(q) # <<>>

\* the page handleSourceChange, handleSearch and 'Fetch News' go back to
FirstPage == 1

\* a handler that reaches fetchNewsBySource(sourceId, page): the part of
\* fetchNewsBySource before its await
BySourceStart(kind, sourceId, page) ==
  /\ loading' = TRUE
  /\ error' = Null
  /\ tasks' = Append(tasks, NewTask(kind, "fetchNewsBySource", sourceId, page, UndefinedStr,
                                    <<ListRequest(sourceId, page)>>))
  /\ last' = Step(kind, tasks'[Len(tasks')], FALSE, "none", 0, 0)
  /\ nActions' = nActions + 1
  /\ userActed' = TRUE

\* handleSourceChange(sourceId), from a source tab
HandleSourceChange ==
  \E sourceId \in SourceTabs :
    /\ mounted /\ ControlsRendered /\ CanStart
    /\ selectedSource' = sourceId
    /\ currentPage' = FirstPage
    /\ BySourceStart("handleSourceChange", sourceId, FirstPage)
    /\ UNCHANGED <<searchQuery, newsArticles, sources, fetchingNews, totalPages,
                   totalArticles, mounted>>

\* handleSearch, from the search button or the Enter key
HandleSearch ==
  /\ mounted /\ ControlsRendered /\ CanStart
  /\ currentPage' = FirstPage
  /\ IF HasQuery(searchQuery)
     THEN /\ loading' = TRUE
          /\ tasks' = Append(tasks, NewTask("handleSearch", "search", selectedSource, FirstPage, searchQuery,
                 <<GetNews(searchQuery, FirstPage, articlesPerPage, SearchSource(selectedSource))>>))
          /\ last' = Step("handleSearch", tasks'[Len(tasks')], FALSE, "none", 0, 0)
          /\ nActions' = nActions + 1
          /\ userActed' = TRUE
          /\ UNCHANGED error
     ELSE BySourceStart("handleSearch", selectedSource, FirstPage)
  /\ UNCHANGED <<searchQuery, newsArticles, sources, selectedSource, fetchingNews,
                 totalPages, totalArticles, mounted>>

\* variant for C27: the guard without its upper bound
PageInRange_NoUpper(page, total) == page >= 1

\* the guard of handlePageChange
PageInRange(page, total) == page >= 1 /\ page <= total

\* handlePageChange(page)
handlePageChange(page) ==
    /\ mounted /\ ControlsRendered /\ CanStart
    /\ IF ~PageInRange(page, totalPages)
       THEN /\ last' = Step("handlePageChange", NewTask("handlePageChange", "none", selectedSource, page, UndefinedStr, <<>>),
                            TRUE, "none", 0, 0)
            /\ nActions' = nActions + 1
            /\ userActed' = TRUE
            /\ UNCHANGED <<currentPage, loading, error, tasks>>
       ELSE /\ currentPage' = page
            /\ IF HasQuery(searchQuery)
               THEN /\ loading' = TRUE
                    /\ tasks' = Append(tasks, NewTask("handlePageChange", "pageSearch", selectedSource, page, searchQuery,
                           <<GetNews(searchQuery, page, articlesPerPage, SearchSource(selectedSource))>>))
                    /\ last' = Step("handlePageChange", tasks'[Len(tasks')], FALSE, "none", 0, 0)
                    /\ nActions' = nActions + 1
                    /\ userActed' = TRUE
                    /\ UNCHANGED error
               ELSE BySourceStart("handlePageChange", selectedSource, page)
    /\ UNCHANGED <<searchQuery, newsArticles, sources, selectedSource, fetchingNews,
                   totalPages, totalArticles, mounted>>

\* a click on Previous, Next or a page button
HandlePageChange == \E page \in ClickablePages : handlePageChange(page)

\* fetchNewsFromSources, from the 'Fetch News' button (disabled while fetchingNews)
FetchNewsFromSources ==
  /\ mounted /\ ControlsRendered /\ CanStart
  /\ ~fetchingNews
  /\ fetchingNews' = TRUE
  /\ error' = Null
  /\ tasks' = Append(tasks, NewTask("fetchNewsFromSources", "ingest", selectedSource, FirstPage, UndefinedStr,
                                    <<FetchNewsFromSourcesReq(articlesPerSource)>>))
  /\ last' = Step("fetchNewsFromSources", tasks'[Len(tasks')], FALSE, "none", 0, 0)
  /\ nActions' = nActions + 1
  /\ userActed' = TRUE
  /\ UNCHANGED <<searchQuery, newsArticles, sources, selectedSource, loading,
                 currentPage, totalPages, totalArticles, mounted>>

\* variant for C25: setFetchingNews(false) as the last statement of the try
\* block instead of the finally
FetchingNewsAfter_TryOnly(completed, cur) == IF completed THEN FALSE ELSE cur

\* finally { setFetchingNews(false) }: the flag once fetchNewsFromSources
\* leaves its try block, completed or thrown out of
FetchingNewsAfter(completed, cur) == FALSE

\* POST /api/fetch-news settles: refresh page 1 of the captured source, or fail
IngestSettle ==
  \E i \in 1..Len(tasks), outcome \in FetchOutcomes :
    LET t == tasks[i]
        t2 == [Fetched(t, outcome) EXCEPT
                 !.pc = "fetchNewsBySource",
                 !.calls = t.calls \o <<ListRequest(t.sourceId, FirstPage)>>]
    IN /\ t.kind = "fetchNewsFromSources" /\ t.pc = "ingest"
       /\ IF Resolves(outcome)
          THEN /\ currentPage' = FirstPage
               /\ loading' = TRUE
               /\ error' = Null
               /\ tasks' = Replace(tasks, i, t2)
               /\ last' = Step("ingest", t2, FALSE, "resolved", 0, 0)
               /\ UNCHANGED fetchingNews
          ELSE /\ error' = IngestFailedMsg
               /\ fetchingNews' = FetchingNewsAfter(FALSE, fetchingNews)
               /\ tasks' = Remove(tasks, i)
               /\ last' = Step("ingest", Fetched(t, outcome), TRUE, "rejected", 0, 0)
               /\ UNCHANGED <<currentPage, loading>>
       /\ UNCHANGED <<searchQuery, newsArticles, sources, selectedSource, totalPages,
                      totalArticles, mounted, nActions, userActed>>

\* what a list request can settle with: a response, or a rejection
ListSettlements(req) ==
  { [outcome |-> "ok", newsData |-> d] : d \in NewsResponses(req) }
  \cup { [outcome |-> o, newsData |-> [articles |-> <<>>, total |-> 0]] :
           o \in FetchOutcomes \ {"ok"} }

\* variant for C15: only the response of the newest run in flight is shown
Displayed_NewestOnly(run, newsData) ==
  IF run = tasks[Len(tasks)] THEN newsData.articles ELSE newsArticles

\* setNewsArticles(newsData.articles): what a run shows of the response it
\* awaited, whatever else is in flight
Displayed(run, newsData) == newsData.articles

\* the banner after fetchNewsBySource's request settled
BySourceError(resolved, cur) == IF resolved THEN cur ELSE FetchFailedMsg

\* what fetchNewsFromSources does to the banner after its refresh returned
AfterRefreshError(cur) == Null

\* the list request of fetchNewsBySource settles; for 'Fetch News' the rest of
\* fetchNewsFromSources (setError(null), finally) runs in the same turn
BySourceSettle ==
  \E i \in 1..Len(tasks) :
    LET t == tasks[i]
        req == t.calls[Len(t.calls)]
    IN /\ t.pc = "fetchNewsBySource"
       /\ \E s \in ListSettlements(req) :
            LET newsData == s.newsData
                err == BySourceError(Resolves(s.outcome), error)
            IN /\ IF Resolves(s.outcome)
                  THEN /\ newsArticles' = Displayed(t, newsData)
                       /\ totalArticles' = newsData.total
                       /\ totalPages' = TotalPagesOf(newsData.total)
                       /\ currentPage' = t.page
                  ELSE UNCHANGED <<newsArticles, totalArticles, totalPages, currentPage>>
               /\ error' = IF t.kind = "fetchNewsFromSources" THEN AfterRefreshError(err) ELSE err
               /\ last' = Step("fetchNewsBySource", Fetched(t, s.outcome), TRUE, Settled(s.outcome), newsData.total,
                               Len(newsData.articles))
       /\ loading' = FALSE
       /\ fetchingNews' = IF t.kind = "fetchNewsFromSources"
                        THEN FetchingNewsAfter(TRUE, fetchingNews)
                        ELSE fetchingNews
       /\ tasks' = Remove(tasks, i)
       /\ UNCHANGED <<searchQuery, sources, selectedSource, mounted, nActions, userActed>>

\* the getNews of handleSearch settles
SearchSettle ==
  \E i \in 1..Len(tasks) :
    LET t == tasks[i]
        req == t.calls[Len(t.calls)]
    IN /\ t.pc = "search"
       /\ \E s \in ListSettlements(req) :
            LET newsData == s.newsData
            IN /\ IF Resolves(s.outcome)
                  THEN /\ newsArticles' = Displayed(t, newsData)
                       /\ totalArticles' = newsData.total
                       /\ totalPages' = TotalPagesOf(newsData.total)
                       /\ UNCHANGED error
                  ELSE /\ error' = SearchFailedMsg
                       /\ UNCHANGED <<newsArticles, totalArticles, totalPages>>
               /\ last' = Step("search", Fetched(t, s.outcome), TRUE, Settled(s.outcome), newsData.total,
                               Len(newsData.articles))
       /\ loading' = FALSE
       /\ tasks' = Remove(tasks, i)
       /\ UNCHANGED <<searchQuery, sources, selectedSource, fetchingNews, currentPage,
                      mounted, nActions, userActed>>

\* the getNews of handlePageChange (search mode) settles
PageSearchSettle ==
  \E i \in 1..Len(tasks) :
    LET t == tasks[i]
        req == t.calls[Len(t.calls)]
    IN /\ t.pc = "pageSearch"
       /\ \E s \in ListSettlements(req) :
            LET newsData == s.newsData
            IN /\ IF Resolves(s.outcome)
                  THEN newsArticles' = Displayed(t, newsData) /\ UNCHANGED error
                  ELSE error' = FetchFailedMsg /\ UNCHANGED newsArticles
               /\ last' = Step("pageSearch", Fetched(t, s.outcome), TRUE, Settled(s.outcome), newsData.total,
                               Len(newsData.articles))
       /\ loading' = FALSE
       /\ tasks' = Remove(tasks, i)
       /\ UNCHANGED <<searchQuery, sources, selectedSource, fetchingNews, currentPage,
                      totalPages, totalArticles, mounted, nActions, userActed>>

\* the search box: onChange={(e) => setSearchQuery(e.target.value)}
SetSearchQuery ==
  \E q \in Queries :
    /\ mounted /\ ControlsRendered
    /\ q # searchQuery
    /\ searchQuery' = q
    /\ UNCHANGED <<newsArticles, sources, selectedSource, loading, fetchingNews, error,
                   currentPage, totalPages, totalArticles, mounted, tasks, last,
                   nActions, userActed>>

\* ------------------------------------------------------------------ fetchNews
\* fetchNews(query, page) has no caller in page.tsx; FetchNewsCall stands for
\* a handler invoking it, and only SpecFN includes it.
FetchNewsArgs == {[query |-> <<"q">>, page |-> 2]}

Pending == [state |-> "pending", key_insights |-> Null, market_impact |-> Null,
            agno_confidence |-> Null]

Rejected == [Pending EXCEPT !.state = "rejected"]

Fulfilled(analysis) ==
  [state |-> "resolved", key_insights |-> analysis.key_insights,
   market_impact |-> analysis.market_impact, agno_confidence |-> analysis.agno_confidence]

\* what one analyzeArticle call can settle with
AnalysisSettlements ==
  {[outcome |-> "ok", result |-> Fulfilled(a)] : a \in Analyses}
  \cup {[outcome |-> o, result |-> Rejected] : o \in FetchOutcomes \ {"ok"}}

\* the mapper's try branch: the article with the analysis spread over it
WithAnalysis(article, analysis) ==
  [article EXCEPT !.aiSummary = analysis.key_insights,
                  !.marketImpact = analysis.market_impact,
                  !.confidence = analysis.agno_confidence]

\* the mapper's catch branch
WithoutAnalysis(article) ==
  [article EXCEPT !.aiSummary = Null, !.marketImpact = Null, !.confidence = Null]

\* the value the mapper's promise fulfils with (the mapper never rejects)
Mapped(article, result) ==
  IF result.state = "resolved" THEN WithAnalysis(article, result) ELSE WithoutAnalysis(article)

\* variant for C4: articles whose analysis failed are filtered out
ProcessedArticles_DropFailed(articles, results) ==
  LET all == [k \in 1..Len(articles) |-> Mapped(articles[k], results[k])]
  IN SelectSeq(all, LAMBDA a : a.aiSummary # Null)

\* articlesWithAI.map(value-or-reason).filter(object): every entry is a
\* fulfilled article object, so the filter keeps all of them
ProcessedArticles(articles, results) ==
  [k \in 1..Len(articles) |-> Mapped(articles[k], results[k])]

\* the ids of a list of articles
Ids(articles) == [k \in 1..Len(articles) |-> articles[k].id]

\* variant for C16: a batch whose list is no longer the one shown is dropped
ShownAfterBatch_IfCurrent(run) ==
  IF Ids(newsArticles) = Ids(run.articles)
  THEN ProcessedArticles(run.articles, run.results)
  ELSE newsArticles

\* setNewsArticles(processedArticles) when Promise.allSettled has resolved,
\* whatever is shown by then
ShownAfterBatch(run) == ProcessedArticles(run.articles, run.results)

\* what an article card shows of the AI fields (truthy fields only)
Shown(v) == IF v = Null \/ v = Undefined \/ v = "" THEN Null ELSE v

Card(article) ==
  [ai_summary |-> Shown(article.ai_summary),
   confidence_score |-> IF Shown(article.ai_summary) = Null THEN Null
                        ELSE Shown(article.confidence_score),
   market_impact |-> IF Shown(article.ai_summary) = Null THEN Null
                     ELSE Shown(article.market_impact)]

FetchNewsCall ==
  \E args \in FetchNewsArgs :
    LET query == args.query
        page == args.page
    IN
    /\ mounted /\ ControlsRendered /\ CanStart
    /\ loading' = TRUE
    /\ tasks' = Append(tasks, NewTask("fetchNews", "getNews", Undefined, page, query,
                                      <<GetNews(query, page, articlesPerPage, Undefined)>>))
    /\ last' = Step("fetchNews", tasks'[Len(tasks')], FALSE, "none", 0, 0)
    /\ nActions' = nActions + 1
    /\ userActed' = TRUE
    /\ UNCHANGED <<searchQuery, newsArticles, sources, selectedSource, fetchingNews, error,
                   currentPage, totalPages, totalArticles, mounted>>

\* the getNews of fetchNews settles: show the raw page, then start the batch
FetchNewsSettle ==
  \E i \in 1..Len(tasks) :
    LET t == tasks[i]
        req == t.calls[Len(t.calls)]
    IN /\ t.pc = "getNews"
       /\ \E s \in ListSettlements(req) :
            LET newsData == s.newsData
                n == Len(newsData.articles)
                t2 == [Fetched(t, s.outcome) EXCEPT
                                !.pc = "enrich",
                                !.articles = newsData.articles,
                                !.results = [k \in 1..n |-> Pending],
                                !.calls = t.calls \o [k \in 1..n |-> AnalyzeArticle(newsData.articles[k])]]
            IN /\ IF Resolves(s.outcome)
                  THEN /\ newsArticles' = Displayed(t, newsData)
                       /\ totalArticles' = newsData.total
                       /\ totalPages' = TotalPagesOf(newsData.total)
                       /\ currentPage' = t.page
                       /\ UNCHANGED error
                  ELSE /\ error' = FetchFailedMsg
                       /\ UNCHANGED <<newsArticles, totalArticles, totalPages, currentPage>>
               /\ IF Resolves(s.outcome) /\ n > 0
                  THEN /\ tasks' = Replace(tasks, i, t2)
                       /\ last' = Step("getNews", t2, FALSE, "resolved", newsData.total, n)
                  ELSE /\ tasks' = Remove(tasks, i)
                       /\ last' = Step("getNews", Fetched(t, s.outcome), TRUE, Settled(s.outcome), newsData.total, n)
       /\ loading' = FALSE
       /\ UNCHANGED <<searchQuery, sources, selectedSource, fetchingNews, mounted,
                      nActions, userActed>>

\* one analyzeArticle call of a batch settles; when it is the last one,
\* Promise.allSettled resolves and the processed list replaces newsArticles
AnalyzeSettle ==
  \E i \in 1..Len(tasks) :
    LET t == tasks[i]
    IN /\ t.pc = "enrich"
       /\ \E k \in {j \in 1..Len(t.results) : t.results[j].state = "pending"},
             s \in AnalysisSettlements :
            LET r == s.result
                t2 == [Fetched(t, s.outcome) EXCEPT !.results[k] = r]
                allSettled == \A j \in 1..Len(t2.results) : t2.results[j].state # "pending"
            IN /\ IF allSettled
                  THEN /\ newsArticles' = ShownAfterBatch(t2)
                       /\ tasks' = Remove(tasks, i)
                  ELSE /\ tasks' = Replace(tasks, i, t2)
                       /\ UNCHANGED newsArticles
               /\ last' = Step("analyzeArticle", t2, allSettled, "none", 0, Len(t2.results))
       /\ UNCHANGED <<searchQuery, sources, selectedSource, loading, fetchingNews, error,
                      currentPage, totalPages, totalArticles, mounted, nActions, userActed>>

Next ==
  \/ Mount
  \/ TryAgain
  \/ HealthSettle
  \/ SourcesSettle
  \/ HandleSourceChange
  \/ HandleSearch
  \/ HandlePageChange
  \/ FetchNewsFromSources
  \/ IngestSettle
  \/ BySourceSettle
  \/ SearchSettle
  \/ PageSearchSettle
  \/ SetSearchQuery

Spec == Init /\ [][Next]_vars

\* fetchNews beside the source tabs, from the state the initial sequence
\* leaves when it loaded the sources; the handler invocations are bounded by
\* MaxBatchActions
InitFN ==
  /\ searchQuery = <<>>
  /\ newsArticles = <<>>
  /\ sources = SourceIds
  /\ selectedSource = "all"
  /\ loading = FALSE
  /\ fetchingNews = FALSE
  /\ error = Null
  /\ currentPage = 1
  /\ totalPages = 1
  /\ totalArticles = 0
  /\ mounted = TRUE
  /\ nActions = 0
  /\ tasks = <<>>
  /\ last = Step("getSources",
                 Fetched(Fetched(NewTask("fetchInitialData", "getSources", Undefined, 0,
                                         UndefinedStr, <<HealthReq, GetSourcesReq>>),
                                 "ok"), "ok"),
                 TRUE, "resolved", 0, 0)
  /\ userActed = FALSE

NextFN ==
  /\ \/ HandleSourceChange
     \/ BySourceSettle
     \/ FetchNewsCall
     \/ FetchNewsSettle
     \/ AnalyzeSettle
  /\ nActions' <= MaxBatchActions

SpecFN == InitFN /\ [][NextFN]_vars

\* ------------------------------------------------------------- pagination
\* The pagination controls on their own: every page of every result set up
\* to MaxPagerPages pages, as the view stands after that page was loaded
\* (reached in the program by paging forward), then one page change.
InitPager ==
  /\ searchQuery \in {<<>>, <<"q">>}
  /\ totalPages \in 0..MaxPagerPages
  /\ totalArticles = IF totalPages % 2 = 0 THEN articlesPerPage * totalPages
                     ELSE (articlesPerPage * totalPages) - 3
  /\ currentPage \in 1..(IF totalPages = 0 THEN 1 ELSE totalPages)
  /\ newsArticles = [i \in 1..Min(MaxArticles, totalArticles) |->
                       ServerArticle(GetNews(searchQuery, currentPage, articlesPerPage, Undefined), i)]
  /\ sources = SourceIds
  /\ selectedSource = "all"
  /\ loading = FALSE
  /\ fetchingNews = FALSE
  /\ error = Null
  /\ mounted = TRUE
  /\ tasks = <<>>
  /\ last = NoStep
  /\ nActions = 0
  /\ userActed = TRUE

NextPager ==
  /\ \/ HandlePageChange
     \/ BySourceSettle
     \/ PageSearchSettle
  /\ nActions' <= MaxPagerActions

SpecPager == InitPager /\ [][NextPager]_vars

\* handlePageChange as a function of its argument: called with any page
\* number from 0 to one past the largest page count
PageArgs == 0..(MaxPagerPages + 1)

HandlePageChangeCall == \E page \in PageArgs : handlePageChange(page)

NextPageCall ==
  /\ \/ HandlePageChangeCall
     \/ BySourceSettle
     \/ PageSearchSettle
  /\ nActions' <= MaxPagerActions

SpecPageCall == InitPager /\ [][NextPageCall]_vars

\* ------------------------------------------------------------- API client
\* The client on its own: one call is an async method suspended in
\* fetchWithTimeout, with the timer setTimeout armed and the time since the
\* call started.  The call ends by a response, a network error, or the timer
\* firing controller.abort().
Methods ==
  {"getNews", "getNewsBySource", "getSources", "fetchNewsFromSources", "getHeadlines",
   "getTrendingTopics", "getMarketInsights", "analyzeArticle", "getSentimentAnalysis",
   "healthCheck"}

\* the deadline, in ms, each method passes to fetchWithTimeout
Timeout(m) ==
  CASE m = "getNews" -> 45000
    [] m = "getNewsBySource" -> 45000
    [] m = "getSources" -> 15000
    [] m = "fetchNewsFromSources" -> 120000
    [] m = "getHeadlines" -> 45000
    [] m = "getTrendingTopics" -> 45000
    [] m = "getMarketInsights" -> 45000
    [] m = "analyzeArticle" -> 60000
    [] m = "getSentimentAnalysis" -> 45000
    [] m = "healthCheck" -> 20000

\* the words before the status in the error each method throws on !response.ok
HttpErrorText(m) ==
  CASE m = "getNews" -> "Failed to fetch news"
    [] m = "getNewsBySource" -> "Failed to fetch news from source"
    [] m = "getSources" -> "Failed to fetch sources"
    [] m = "fetchNewsFromSources" -> "Failed to fetch news from sources"
    [] m = "getHeadlines" -> "Failed to fetch headlines"
    [] m = "getTrendingTopics" -> "Failed to fetch trending topics"
    [] m = "getMarketInsights" -> "Failed to fetch market insights"
    [] m = "analyzeArticle" -> "Failed to analyze article"
    [] m = "getSentimentAnalysis" -> "Failed to analyze sentiment"
    [] m = "healthCheck" -> "none"

\* response statuses the backend is explored with
Statuses == {200, 404, 500}

\* response.ok
ResponseOk(status) == status >= 200 /\ status <= 299

\* an Error: its message text and the status or timeout embedded in it
NoError == [text |-> "none", status |-> 0, timeout |-> 0]

HttpError(m, status) == [text |-> HttpErrorText(m), status |-> status, timeout |-> 0]

TimeoutError(timeout) == [text |-> "Request timeout after", status |-> 0, timeout |-> timeout]

NetworkError == [text |-> "Failed to fetch", status |-> 0, timeout |-> 0]

ParseError == [text |-> "Unexpected token", status |-> 0, timeout |-> 0]

\* what ends the fetch() of a call: a response (its body JSON or not), a
\* network error, or the abort
NoEvent == [kind |-> "none", status |-> 0, body |-> "none"]

Responses == {[kind |-> "response", status |-> st, body |-> b] :
                st \in Statuses, b \in {"json", "garbage"}}

NetworkFailure == [NoEvent EXCEPT !.kind = "network"]

Abort == [NoEvent EXCEPT !.kind = "abort"]

\* the event as the handlers' model classifies it
EventOutcome(ev) ==
  CASE ev.kind = "response" -> IF ResponseOk(ev.status) THEN "ok" ELSE "http"
    [] ev.kind = "network" -> "network"
    [] ev.kind = "abort" -> "timeout"

\* fetchWithTimeout: returns the response, or throws the timeout error on an
\* abort and the original error otherwise
FetchWithTimeout(timeout, ev) ==
  CASE ev.kind = "response" -> [state |-> "resolved", error |-> NoError]
    [] ev.kind = "abort" -> [state |-> "rejected", error |-> TimeoutError(timeout)]
    [] ev.kind = "network" -> [state |-> "rejected", error |-> NetworkError]

NoResult == [state |-> "pending", value |-> "none", error |-> NoError]

\* variant for C13: the methods return response.json() without testing response.ok
MethodResult_NoStatusCheck(m, timeout, ev) ==
  LET f == FetchWithTimeout(timeout, ev)
  IN IF f.state = "rejected" THEN [state |-> "rejected", value |-> "none", error |-> f.error]
     ELSE [state |-> "resolved", value |-> "data", error |-> NoError]

\* what the promise of method m settles with when its fetch ends by ev
MethodResult(m, timeout, ev) ==
  LET f == FetchWithTimeout(timeout, ev)
  IN IF m = "healthCheck"
     THEN IF f.state = "rejected"
          THEN [state |-> "resolved", value |-> "false", error |-> NoError]
          ELSE [state |-> "resolved",
                value |-> IF ResponseOk(ev.status) THEN "true" ELSE "false",
                error |-> NoError]
     ELSE IF f.state = "rejected"
          THEN [state |-> "rejected", value |-> "none", error |-> f.error]
          ELSE IF ~ResponseOk(ev.status)
               THEN [state |-> "rejected", value |-> "none", error |-> HttpError(m, ev.status)]
               ELSE IF ev.body = "json"
                    THEN [state |-> "resolved", value |-> "data", error |-> NoError]
                    ELSE [state |-> "rejected", value |-> "none", error |-> ParseError]

\* variant for C18: the timer is left armed when the fetch settles
TimerAfterSettle_Leaked == "armed"

\* clearTimeout(timeoutId) on both paths out of the await
TimerAfterSettle == "cleared"

NewCall(m) ==
  [m |-> m, pc |-> "fetch", timeout |-> Timeout(m), timer |-> "armed", elapsed |-> 0,
   fetches |-> 0, event |-> NoEvent, result |-> NoResult]

\* the instants at which some timer is due
Instants == {Timeout(m) : m \in Methods}

Later(e) == {x \in Instants : x > e}

NextInstant(e) == CHOOSE x \in Later(e) : \A y \in Later(e) : x <= y

ClientFrame ==
  UNCHANGED <<searchQuery, newsArticles, sources, selectedSource, loading, fetchingNews,
              error, currentPage, totalPages, totalArticles, mounted, nActions, userActed>>

\* a method of api is called
ApiCall ==
  \E m \in Methods :
    /\ Len(tasks) < MaxClientCalls
    /\ tasks' = Append(tasks, NewCall(m))
    /\ last' = Step("call", NewCall(m), FALSE, "none", 0, 0)
    /\ ClientFrame

\* time passes for a call, up to the next instant; an armed timer fires when
\* it is due, so time does not pass it
Tick ==
  \E i \in 1..Len(tasks) :
    LET c == tasks[i]
    IN /\ Later(c.elapsed) # {}
       /\ c.timer = "armed" => NextInstant(c.elapsed) <= c.timeout
       /\ tasks' = Replace(tasks, i, [c EXCEPT !.elapsed = NextInstant(c.elapsed)])
       /\ UNCHANGED last
       /\ ClientFrame

\* the fetch of a call ends by ev: the rest of fetchWithTimeout and of the
\* method run in the same turn
EndFetch(i, op, ev) ==
  LET c == tasks[i]
      res == MethodResult(c.m, c.timeout, ev)
      c2 == [c EXCEPT !.pc = "settled", !.timer = TimerAfterSettle, !.event = ev,
                      !.result = res, !.fetches = @ + FetchAttempts(EventOutcome(ev))]
  IN /\ tasks' = IF c2.timer = "armed" THEN Replace(tasks, i, c2) ELSE Remove(tasks, i)
     /\ last' = Step(op, c2, TRUE, res.state, 0, 0)
     /\ ClientFrame

\* the backend answers before the deadline
Respond ==
  \E i \in 1..Len(tasks), ev \in Responses :
    /\ tasks[i].pc = "fetch" /\ tasks[i].elapsed < tasks[i].timeout
    /\ EndFetch(i, "response", ev)

\* the connection fails before the deadline
NetworkFail ==
  \E i \in 1..Len(tasks) :
    /\ tasks[i].pc = "fetch" /\ tasks[i].elapsed < tasks[i].timeout
    /\ EndFetch(i, "networkError", NetworkFailure)

\* the timer of a call is due: controller.abort()
TimerFires ==
  \E i \in 1..Len(tasks) :
    LET c == tasks[i]
    IN /\ c.timer = "armed" /\ c.elapsed = c.timeout
       /\ IF c.pc = "fetch"
          THEN EndFetch(i, "abort", Abort)
          ELSE /\ tasks' = Remove(tasks, i)
               /\ last' = Step("lateAbort", [c EXCEPT !.timer = "fired"], TRUE, "none", 0, 0)
               /\ ClientFrame

NextClient ==
  \/ ApiCall
  \/ Tick
  \/ Respond
  \/ NetworkFail
  \/ TimerFires

SpecClient == InitFN /\ [][NextClient]_vars

\* ------------------------------------------------------ a stable backend
\* The view against a backend whose total for a given query and source never
\* changes: 27 articles in all, 20 of them matching any query, none from
\* the source s1.
StableTotal(req) ==
  IF req.query # UndefinedStr THEN 20
  ELSE IF req.source = Undefined THEN 27
  ELSE 0

\* every list response reports the stable total of its request
StableBackend ==
  (last'.outcome = "resolved" /\ last'.op \in {"fetchNewsBySource", "search", "pageSearch"}) =>
    last'.total = StableTotal(last'.run.calls[Len(last'.run.calls)])

NextStable == Next /\ StableBackend

SpecStable == Init /\ [][NextStable]_vars

\* ------------------------------------------------------------ properties
\* the requests of a run that go to method m
CallsTo(run, m) == {k \in 1..Len(run.calls) : run.calls[k].m = m}

\* the runs in flight and the run that stepped last
Runs == {tasks[k] : k \in 1..Len(tasks)} \cup {last.run}

\* a step of a handler run was just taken that left `last` as it is now
Stepped == tasks' # tasks \/ nActions' # nActions

\* an empty or all-whitespace query
IsBlank(q) == \A k \in 1..Len(q) : q[k] = " "

\* the one unfiltered page-1 request for source s, written out
UnfilteredFirstPage(s) ==
  IF s = "all"
  THEN [m |-> "getNews", query |-> UndefinedStr, page |-> 1, perPage |-> 10,
        source |-> Undefined, arg |-> 0]
  ELSE [m |-> "getNewsBySource", query |-> UndefinedStr, page |-> 1, perPage |-> 10,
        source |-> s, arg |-> 0]

\* C1: when the health check of fetchInitialData answers false, the banner
\* is the backend-unavailable message, loading is false, and the run has
\* ended having issued the health check and nothing else.
C1_UnhealthyStops ==
  (last.op = "healthCheck" /\ last.outcome = "false") =>
    /\ error = BackendDownMsg
    /\ loading = FALSE
    /\ last.done
    /\ last.run.calls = <<HealthReq>>

C1_Witness ==
  /\ last.op = "healthCheck" /\ last.outcome = "false"
  /\ error = BackendDownMsg /\ ~loading /\ tasks = <<>>

\* C2: when the health check succeeded and getSources rejects, the run ends
\* with sources empty and loading false, and the step leaves the banner as it
\* was: null, as fetchInitialData set it, unless another handler that
\* overlapped the run has set it (none can overlap the run started on mount).
C2_State ==
  (last.op = "getSources" /\ last.outcome = "rejected") =>
    /\ sources = {}
    /\ loading = FALSE
    /\ last.done
    /\ nActions = 0 => error = Null

C2_Step ==
  (Stepped /\ last'.op = "getSources" /\ last'.outcome = "rejected") => error' = error

C3_Claim ==
  (last.done /\ last.outcome = "resolved"
     /\ last.op \in {"fetchNewsBySource", "search", "pageSearch"}) =>
    Cardinality(CallsTo(last.run, "analyzeArticle")) = last.n

\* C4: an enrichment batch stays suspended exactly while a call is unsettled;
\* when it completes, whatever calls rejected, newsArticles holds the same N
\* articles in the same order and each article whose call rejected has null
\* aiSummary, marketImpact and confidence; no step of the batch touches the
\* banner; and when the batch starts the raw articles are shown with loading
\* false before any call has settled.
C4_State ==
  /\ \A k \in 1..Len(tasks) :
       tasks[k].pc = "enrich" =>
         \E j \in 1..Len(tasks[k].results) : tasks[k].results[j].state = "pending"
  /\ (last.op = "analyzeArticle" /\ last.done) =>
       /\ \A j \in 1..Len(last.run.results) : last.run.results[j].state # "pending"
       /\ Len(newsArticles) = Len(last.run.articles)
       /\ \A j \in 1..Len(newsArticles) :
            /\ newsArticles[j].id = last.run.articles[j].id
            /\ last.run.results[j].state = "rejected" =>
                 /\ newsArticles[j].aiSummary = Null
                 /\ newsArticles[j].marketImpact = Null
                 /\ newsArticles[j].confidence = Null
  /\ (last.op = "getNews" /\ last.outcome = "resolved" /\ ~last.done) =>
       /\ newsArticles = last.run.articles
       /\ loading = FALSE
       /\ \A j \in 1..Len(last.run.results) : last.run.results[j].state = "pending"

C4_Step == (Stepped /\ last'.op = "analyzeArticle") => error' = error

C4_BatchToleratesFailures == []C4_State /\ [][C4_Step]_vars

C4_Witness ==
  /\ last.op = "analyzeArticle" /\ last.done
  /\ Len(newsArticles) = 2
  /\ last.run.results[1].state = "rejected"
  /\ last.run.results[2].state = "resolved"
  /\ newsArticles[1].aiSummary = Null
  /\ error = Null

\* C5 (as claimed): after a batch completes, the fields the card renders
\* (ai_summary, market_impact, confidence_score) of every article whose
\* analysis succeeded hold key_insights, market_impact and agno_confidence.
C5_Claim ==
  (last.op = "analyzeArticle" /\ last.done) =>
    \A j \in 1..Len(newsArticles) :
      last.run.results[j].state = "resolved" =>
        /\ Card(newsArticles[j]).ai_summary = last.run.results[j].key_insights
        /\ Card(newsArticles[j]).market_impact = last.run.results[j].market_impact
        /\ Card(newsArticles[j]).confidence_score = last.run.results[j].agno_confidence

\* C6: until a search, source tab, page button or 'Fetch News' is used, only
\* the initial sequence runs, its requests are healthCheck and getSources
\* alone, and newsArticles is empty, currentPage 1 and totalArticles 0.
C6_NoArticlesBeforeUserActs ==
  ~userActed =>
    /\ newsArticles = <<>>
    /\ currentPage = 1
    /\ totalArticles = 0
    /\ \A r \in Runs :
         /\ r.kind \in {"fetchInitialData", "none"}
         /\ \A k \in 1..Len(r.calls) : r.calls[k].m \in {"healthCheck", "getSources"}

C6_Witness ==
  /\ ~userActed /\ tasks = <<>> /\ ~loading
  /\ last.op = "getSources" /\ last.outcome = "resolved"
  /\ last.run.calls = <<HealthReq, GetSourcesReq>>

\* C7: handleSearch with an empty or all-whitespace query sets currentPage
\* to 1 and issues exactly one request, the unfiltered page-1 request of the
\* selected source, which carries no query.
C7_Step ==
  (Stepped /\ last'.op = "handleSearch" /\ ~last'.done /\ IsBlank(searchQuery)) =>
    /\ currentPage' = 1
    /\ tasks' = Append(tasks, last'.run)
    /\ last'.run.calls = <<UnfilteredFirstPage(selectedSource)>>
    /\ last'.run.calls[1].query = UndefinedStr

C7_BlankSearchFallsBack == [][C7_Step]_vars

C7_Witness ==
  /\ last.op = "handleSearch" /\ ~last.done
  /\ searchQuery = <<" ">>
  /\ selectedSource = "s1"
  /\ last.run.calls = <<UnfilteredFirstPage("s1")>>
  /\ currentPage = 1

\* C8: handleSourceChange(s) leaves selectedSource = s and currentPage = 1
\* and has issued exactly one request, the page-1 request of s (getNews with
\* no query for 'all', getNewsBySource(s, 1, 10) otherwise); when that
\* request succeeds currentPage is 1.
C8_SourceChangeResetsPage ==
  /\ (last.op = "handleSourceChange" /\ ~last.done) =>
       /\ selectedSource = last.run.sourceId
       /\ currentPage = 1
       /\ last.run.calls = <<UnfilteredFirstPage(last.run.sourceId)>>
  /\ (last.op = "fetchNewsBySource" /\ last.run.kind = "handleSourceChange"
        /\ last.outcome = "resolved") =>
       /\ currentPage = 1
       /\ last.run.calls = <<UnfilteredFirstPage(last.run.sourceId)>>

\* the source tab s1 used while a change to page 2 is still in flight
C8_Witness ==
  /\ last.op = "handleSourceChange" /\ ~last.done
  /\ last.run.sourceId = "s1"
  /\ Len(tasks) = 2
  /\ tasks[1].kind = "handlePageChange" /\ tasks[1].page = 2
  /\ currentPage = 1

\* C9: after a list request of fetchNewsBySource, handleSearch or fetchNews
\* succeeded, totalArticles is the total the server reported and totalPages
\* is the least integer p with p * 10 >= total.
C9_TotalsFollowServer ==
  (last.outcome = "resolved" /\ last.op \in {"fetchNewsBySource", "search", "getNews"}) =>
    /\ totalArticles = last.total
    /\ totalPages * 10 >= last.total
    /\ (totalPages - 1) * 10 < last.total
    /\ totalPages >= 0

C9_Witness ==
  /\ last.op = "search" /\ last.outcome = "resolved"
  /\ last.total = 27 /\ totalArticles = 27 /\ totalPages = 3

\* the page numbers on the buttons, and the numbers a..b in order
Window == PageButtons(currentPage, totalPages)

Range(a, b) == [k \in 1..((b - a) + 1) |-> (a + k) - 1]

WindowShape ==
  /\ Len(Window) = Min(5, totalPages)
  /\ \A k \in 1..Len(Window) : Window[k] \in 1..totalPages
  /\ \A k \in 1..(Len(Window) - 1) : Window[k + 1] = Window[k] + 1
  /\ \E k \in 1..Len(Window) : Window[k] = currentPage

\* C10 (as claimed): for totalPages >= 2 and 1 <= currentPage <= totalPages
\* the window is min(5, totalPages) consecutive pages within 1..totalPages
\* that include currentPage; it is currentPage-2..currentPage+2 when
\* 3 < currentPage < totalPages-2, 1..5 when currentPage <= 3, and
\* totalPages-4..totalPages when currentPage >= totalPages-2 and totalPages > 5.
C10_Claim ==
  (totalPages >= 2 /\ currentPage >= 1 /\ currentPage <= totalPages) =>
    /\ WindowShape
    /\ (3 < currentPage /\ currentPage < totalPages - 2) =>
         Window = Range(currentPage - 2, currentPage + 2)
    /\ currentPage <= 3 => Window = Range(1, 5)
    /\ (currentPage >= totalPages - 2 /\ totalPages > 5) =>
         Window = Range(totalPages - 4, totalPages)

\* C10 (amended): as claimed, except that for currentPage <= 3 the window is
\* 1..min(5, totalPages).
C10_WindowAmended ==
  (totalPages >= 2 /\ currentPage >= 1 /\ currentPage <= totalPages) =>
    /\ WindowShape
    /\ (3 < currentPage /\ currentPage < totalPages - 2) =>
         Window = Range(currentPage - 2, currentPage + 2)
    /\ currentPage <= 3 => Window = Range(1, Min(5, totalPages))
    /\ (currentPage >= totalPages - 2 /\ totalPages > 5) =>
         Window = Range(totalPages - 4, totalPages)

\* a page change made from page 2 of 3, where the window is 1..3
C10_Witness ==
  /\ PaginationRendered
  /\ totalPages = 3 /\ last.op = "handlePageChange" /\ currentPage = 2
  /\ Window = <<1, 2, 3>>

\* a handler run has just ended on a rejected list or ingestion request
FailedListOrIngest ==
  /\ last.done /\ last.outcome = "rejected"
  /\ last.op \in {"fetchNewsBySource", "search", "pageSearch", "ingest"}

\* C11 (as claimed): when a handler run has ended on a rejected getNews,
\* getNewsBySource or fetchNewsFromSources request, the banner is not null.
C11_Claim == FailedListOrIngest => error # Null

\* no request appears twice among the requests of a run
NoRepeat(run) ==
  \A j, k \in 1..Len(run.calls) : run.calls[j] = run.calls[k] => j = k

\* C12: every settled request of a handler run made exactly one HTTP attempt
\* (a suspended run has one request outstanding, a finished run none); a
\* request that fails, or a health check that answers false, ends its run
\* with nothing started in its place, and no run issues a request twice.
C12_State ==
  /\ \A k \in 1..Len(tasks) : tasks[k].fetches = Len(tasks[k].calls) - 1
  /\ last.done => last.run.fetches = Len(last.run.calls)
  /\ last.outcome \in {"rejected", "false"} => last.done
  /\ \A r \in Runs : NoRepeat(r)

C12_Step ==
  (Stepped /\ last'.outcome \in {"rejected", "false"}) => Len(tasks') = Len(tasks) - 1

C12_SingleAttempt == []C12_State /\ [][C12_Step]_vars

\* a search that was answered with an error: one request, one attempt
C12_Witness ==
  /\ last.op = "search" /\ last.outcome = "rejected" /\ last.done
  /\ Len(last.run.calls) = 1 /\ last.run.fetches = 1
  /\ tasks = <<>>

\* a call of the API client has just settled
CallSettled == last.done /\ last.op \in {"response", "networkError", "abort"}

Is2xx(ev) == ev.kind = "response" /\ ev.status \in 200..299

\* C13: a method other than healthCheck rejects on a non-2xx response with
\* the status in the error, rejects on the deadline's abort with the timeout
\* in the error, rejects on a network error, and resolves only on a 2xx
\* response; healthCheck always resolves, with true exactly on a 2xx response
\* and false otherwise.  The handlers' view of an outcome (Resolves,
\* HealthCheck) agrees with the client.
C13_MethodOutcomes ==
  CallSettled =>
    LET c == last.run
        ev == c.event
        res == c.result
    IN IF c.m = "healthCheck"
       THEN /\ res.state = "resolved"
            /\ res.value \in {"true", "false"}
            /\ res.value = "true" <=> Is2xx(ev)
            /\ (res.value = "true") = HealthCheck(EventOutcome(ev))
       ELSE /\ (ev.kind = "response" /\ ~Is2xx(ev)) =>
                 /\ res.state = "rejected"
                 /\ res.error.status = ev.status
                 /\ res.error.text = HttpErrorText(c.m)
            /\ ev.kind = "abort" =>
                 /\ res.state = "rejected"
                 /\ res.error.timeout = c.timeout
                 /\ res.error.text = "Request timeout after"
            /\ ev.kind = "network" => res.state = "rejected"
            /\ res.state = "resolved" => Is2xx(ev)
            /\ ev.body # "garbage" => (res.state = "resolved") = Resolves(EventOutcome(ev))

\* getSources answered 500: rejected, with the status in the message
C13_Witness ==
  /\ CallSettled /\ last.run.m = "getSources"
  /\ last.run.event.kind = "response" /\ last.run.event.status = 500
  /\ last.run.result.state = "rejected"
  /\ last.run.result.error = [text |-> "Failed to fetch sources", status |-> 500, timeout |-> 0]

\* C14: every step of a run of the initial sequence, 'Try Again' included,
\* leaves newsArticles, selectedSource, searchQuery, currentPage, totalPages
\* and totalArticles as they were; its first step clears the banner and
\* issues the health check; the run issues getSources after it if and only
\* if the backend was healthy, and no other request.
C14_State ==
  /\ \A r \in Runs :
       r.kind = "fetchInitialData" => r.calls \in {<<HealthReq>>, <<HealthReq, GetSourcesReq>>}
  /\ (last.op = "healthCheck" /\ last.outcome = "true") =>
       last.run.calls = <<HealthReq, GetSourcesReq>>
  /\ (last.op = "healthCheck" /\ last.outcome = "false") =>
       last.run.calls = <<HealthReq>> /\ last.done

C14_Step ==
  (Stepped /\ last'.run.kind = "fetchInitialData") =>
    /\ UNCHANGED <<newsArticles, selectedSource, searchQuery, currentPage, totalPages,
                   totalArticles>>
    /\ last'.op = "fetchInitialData" => (error' = Null /\ last'.run.calls = <<HealthReq>>)

C14_TryAgainRerunsInitialOnly == []C14_State /\ [][C14_Step]_vars

\* 'Try Again' used on page 2 of a loaded list, its run finished: the list,
\* the page and the totals are still there
C14_Witness ==
  /\ last.op = "getSources" /\ last.done /\ nActions = 3
  /\ last.run.calls = <<HealthReq, GetSourcesReq>>
  /\ userActed /\ tasks = <<>>
  /\ newsArticles # <<>> /\ currentPage = 2 /\ totalPages = 3 /\ totalArticles = 27

\* the request a run awaited last
Awaited(run) == run.calls[Len(run.calls)]

\* C15: a list request that succeeds puts its own articles in newsArticles
\* whenever it completes, whether or not a request issued after it is in
\* flight or has completed already; in search mode a page request leaves
\* currentPage as the clicks set it, outside search mode it sets currentPage
\* to its own page.
C15_Step ==
  (Stepped /\ last'.outcome = "resolved"
     /\ last'.op \in {"fetchNewsBySource", "search", "pageSearch"}) =>
    /\ Len(newsArticles') = last'.n
    /\ \A j \in 1..last'.n : newsArticles'[j].id = ArticleId(Awaited(last'.run), j)
    /\ last'.op = "pageSearch" => currentPage' = currentPage
    /\ last'.op = "fetchNewsBySource" => currentPage' = last'.run.page

C15_CompletionOrder == [][C15_Step]_vars

\* search mode, pages 2 then 3 clicked, page 3 answered first: both requests
\* have completed, currentPage is 3 and the articles are those of page 2.
\* The banner of the failed health check is still up, so no handler went
\* through fetchNewsBySource: the three invocations were the search and the
\* two page clicks, and only the clicks set currentPage.
C15_Witness ==
  /\ tasks = <<>> /\ nActions = 3
  /\ error = BackendDownMsg
  /\ searchQuery = <<"q">>
  /\ last.op = "pageSearch" /\ last.outcome = "resolved" /\ last.run.page = 2
  /\ currentPage = 3
  /\ newsArticles # <<>>
  /\ newsArticles[1].id = ArticleId(GetNews(<<"q">>, 2, articlesPerPage, Undefined), 1)

\* C16: a batch in flight stays in flight through every step of any other
\* run, and when its last call settles newsArticles becomes its own list,
\* enriched, while currentPage, totalPages, totalArticles and selectedSource
\* stay as the later actions left them.
C16_Step ==
  /\ \A k \in 1..Len(tasks) :
       tasks[k].pc = "enrich" =>
         \/ \E j \in 1..Len(tasks') : tasks'[j] = tasks[k]
         \/ last'.op = "analyzeArticle" /\ last'.run.articles = tasks[k].articles
  /\ (Stepped /\ last'.op = "analyzeArticle" /\ last'.done) =>
       /\ Ids(newsArticles') = Ids(last'.run.articles)
       /\ \A j \in 1..Len(newsArticles') :
            last'.run.results[j].state = "resolved" =>
              newsArticles'[j].aiSummary = last'.run.results[j].key_insights
       /\ UNCHANGED <<currentPage, totalPages, totalArticles, selectedSource>>

C16_StaleBatchOverwrites == [][C16_Step]_vars

\* fetchNews('q', 2) showed two articles and started its batch; the source
\* tab s1 was used and answered with an empty list (page 1, total 0); then
\* the batch completed: its two articles are shown, enriched, under the
\* source, page and totals of the s1 list
C16_Witness ==
  /\ last.op = "analyzeArticle" /\ last.done /\ tasks = <<>>
  /\ selectedSource = "s1" /\ currentPage = 1 /\ totalPages = 0 /\ totalArticles = 0
  /\ Len(newsArticles) = 2
  /\ newsArticles[1].id = ArticleId(GetNews(<<"q">>, 2, articlesPerPage, Undefined), 1)
  /\ newsArticles[1].aiSummary = "insights"

\* POST /api/fetch-news with articles_per_source = 15, written out
IngestRequest ==
  [m |-> "fetchNewsFromSources", query |-> UndefinedStr, page |-> 0, perPage |-> 0,
   source |-> Undefined, arg |-> 15]

\* the runs of fetchNewsFromSources in flight
IngestRuns == {k \in 1..Len(tasks) : tasks[k].kind = "fetchNewsFromSources"}

\* C17 (as claimed): fetchNewsFromSources issues one POST /api/fetch-news
\* with articles_per_source 15; when it succeeds the run issues exactly one
\* more request, page 1 of the source selected at that moment; when it fails
\* the run ends with no list request and the banner set; fetchingNews is true
\* exactly while a run of fetchNewsFromSources is in flight, and there is at
\* most one.
C17_Claim ==
  /\ last.op = "fetchNewsFromSources" => last.run.calls = <<IngestRequest>>
  /\ (last.op = "ingest" /\ last.outcome = "resolved") =>
       last.run.calls = <<IngestRequest, UnfilteredFirstPage(selectedSource)>>
  /\ (last.op = "ingest" /\ last.outcome = "rejected") =>
       /\ last.run.calls = <<IngestRequest>>
       /\ last.done
       /\ error # Null
  /\ (last.op = "fetchNewsBySource" /\ last.run.kind = "fetchNewsFromSources") =>
       /\ last.done
       /\ Len(last.run.calls) = 2
  /\ fetchingNews <=> IngestRuns # {}
  /\ Cardinality(IngestRuns) <= 1

\* the deadlines as the specification lists them, in ms
ListedDeadline(m) ==
  CASE m = "getSources" -> 15000
    [] m = "healthCheck" -> 20000
    [] m \in {"getNews", "getNewsBySource", "getHeadlines", "getTrendingTopics",
              "getMarketInsights", "getSentimentAnalysis"} -> 45000
    [] m = "analyzeArticle" -> 60000
    [] m = "fetchNewsFromSources" -> 120000

\* C18: every call in flight has the listed deadline of its method, between
\* 15 s and 120 s, an armed timer, and has not been waiting longer than the
\* deadline; a call ended by the abort was at its deadline and its
\* fetchWithTimeout threw the timeout error (which healthCheck turns into
\* false); a call ended by a response or a network error ended before the
\* deadline; every call that has ended has its timer cleared, and no timer
\* fires for a call that has ended.
C18_Deadlines ==
  /\ \A k \in 1..Len(tasks) :
       /\ tasks[k].timeout = ListedDeadline(tasks[k].m)
       /\ tasks[k].timeout >= 15000 /\ tasks[k].timeout <= 120000
       /\ tasks[k].pc = "fetch" /\ tasks[k].timer = "armed"
       /\ tasks[k].elapsed <= tasks[k].timeout
  /\ CallSettled =>
       /\ last.run.timer = "cleared"
       /\ last.run.timeout = ListedDeadline(last.run.m)
       /\ last.op = "abort" =>
            /\ last.run.elapsed = last.run.timeout
            /\ FetchWithTimeout(last.run.timeout, last.run.event) =
                 [state |-> "rejected",
                  error |-> [text |-> "Request timeout after", status |-> 0,
                             timeout |-> ListedDeadline(last.run.m)]]
            /\ last.run.m # "healthCheck" =>
                 /\ last.run.result.state = "rejected"
                 /\ last.run.result.error.timeout = ListedDeadline(last.run.m)
       /\ last.op \in {"response", "networkError"} => last.run.elapsed < last.run.timeout
  /\ last.op # "lateAbort"

\* fetch-news with no answer after 120 s: aborted, rejected with the timeout
C18_Witness ==
  /\ CallSettled /\ last.op = "abort" /\ last.run.m = "fetchNewsFromSources"
  /\ last.run.elapsed = 120000 /\ last.run.timer = "cleared"
  /\ last.run.result.state = "rejected"
  /\ last.run.result.error.timeout = 120000

\* GET /api/news for page p of query q, scoped to source s unless s is 'all',
\* written out
SearchRequest(q, p, s) ==
  [m |-> "getNews", query |-> q, page |-> p, perPage |-> 10,
   source |-> IF s = "all" THEN Undefined ELSE s, arg |-> 0]

\* C19: with a query that is not blank, handleSearch sets currentPage to 1
\* and issues exactly one request, getNews for page 1 with per_page 10, the
\* query, and the source exactly when selectedSource is not 'all';
\* handlePageChange(p) sets currentPage to p and issues the same request for
\* page p.
C19_Step ==
  (Stepped /\ ~IsBlank(searchQuery) /\ ~last'.done
     /\ last'.op \in {"handleSearch", "handlePageChange"}) =>
    LET p == IF last'.op = "handleSearch" THEN 1 ELSE last'.run.page
    IN /\ tasks' = Append(tasks, last'.run)
       /\ last'.run.calls = <<SearchRequest(searchQuery, p, selectedSource)>>
       /\ currentPage' = p

C19_SearchRequests == [][C19_Step]_vars

\* page 2 of the search for "q" within source s1
C19_Witness ==
  /\ last.op = "handlePageChange" /\ ~last.done
  /\ searchQuery = <<"q">> /\ selectedSource = "s1" /\ currentPage = 2
  /\ last.run.calls = <<[m |-> "getNews", query |-> <<"q">>, page |-> 2, perPage |-> 10,
                         source |-> "s1", arg |-> 0]>>

\* C20 (as claimed): with a backend of stable totals, in every reachable
\* state 1 <= currentPage <= max(1, totalPages).
C20_Claim ==
  /\ currentPage >= 1
  /\ currentPage <= (IF totalPages > 1 THEN totalPages ELSE 1)

\* the filters a list can come from: a query or none, a source or none, and
\* the page; an article's id tells which
Filters ==
  {[NoReq EXCEPT !.query = q, !.source = src, !.page = pg] :
     q \in {UndefinedStr, <<"q">>}, src \in {Undefined} \cup SourceIds, pg \in 1..3}

\* C21 (as claimed): whenever no request is in flight and articles are
\* shown, totalArticles and totalPages are the totals of the filter (query,
\* source) the shown articles come from.
C21_Claim ==
  (tasks = <<>> /\ newsArticles # <<>>) =>
    \A f \in Filters :
      newsArticles[1].id = ArticleId(f, 1) =>
        /\ totalArticles = StableTotal(f)
        /\ totalPages * 10 >= StableTotal(f)
        /\ (totalPages - 1) * 10 < StableTotal(f)

\* the view a failed list request is claimed to leave as it was
ListView == <<newsArticles, totalArticles, totalPages, currentPage>>

\* a handler issued a list request in this step, or one was rejected
C22_Step ==
  /\ (Stepped /\ ~last'.done /\ last'.outcome = "none"
        /\ last'.op \in {"handleSourceChange", "handleSearch", "handlePageChange"})
       => UNCHANGED ListView
  /\ (Stepped /\ last'.outcome = "rejected"
        /\ last'.op \in {"fetchNewsBySource", "search", "pageSearch"})
       => UNCHANGED ListView

\* C22 (as claimed): a user action whose list request fails leaves
\* newsArticles, totalArticles, totalPages and currentPage as they were
\* before the action: neither the step that issues the request (any request
\* can fail) nor the step that handles the rejection changes them.
C22_Claim == [][C22_Step]_vars

\* the last step finished a user action whose list request succeeded
ListActionSucceeded ==
  /\ last.done
  /\ last.outcome = "resolved"
  /\ last.op \in {"fetchNewsBySource", "search", "pageSearch"}
  /\ last.run.kind \in {"handleSourceChange", "handleSearch", "handlePageChange"}

\* C23 (as claimed): when a source switch, a search or a page change
\* finishes with its list request answered, the error banner is null,
\* whatever an earlier action had set it to.
C23_Claim == ListActionSucceeded => error = Null

\* a run is waiting for a list request (getNews / getNewsBySource) or is
\* inside the initial sequence
ListOrInitialInFlight ==
  \E i \in 1..Len(tasks) :
    tasks[i].pc \in {"fetchNewsBySource", "search", "pageSearch", "healthCheck", "getSources"}

\* C24 (as claimed): loading is true in every state in which a list request
\* or the initial sequence is in flight, overlapping requests included.
C24_Claim == ListOrInitialInFlight => loading

\* every request settles (fetchWithTimeout rejects at its deadline at the
\* latest), so a run waiting for one is eventually continued; the effect
\* that starts the initial sequence runs after the first render
Fairness ==
  /\ WF_vars(Mount)
  /\ WF_vars(HealthSettle)
  /\ WF_vars(SourcesSettle)
  /\ WF_vars(IngestSettle)
  /\ WF_vars(BySourceSettle)
  /\ WF_vars(SearchSettle)
  /\ WF_vars(PageSearchSettle)

SpecLive == Init /\ [][Next]_vars /\ Fairness

\* the handlers a run can be of
Kinds == {"fetchInitialData", "handleSourceChange", "handleSearch", "handlePageChange",
          "fetchNewsFromSources"}

\* a run of handler k is under way
Running(k) == \E i \in 1..Len(tasks) : tasks[i].kind = k

\* no run is under way and the initial sequence has been started
Idle == mounted /\ tasks = <<>>

C25_Idle == Idle => (~loading /\ ~fetchingNews)

\* C25: with every request settling, the initial sequence finishes, every
\* run of a user action under way leads to a run of that action finishing
\* and to a state with no run under way; and whenever no run is under way
\* loading and fetchingNews are both false, whatever the outcomes were.
C25_Terminates ==
  /\ <>(last.done /\ last.run.kind = "fetchInitialData")
  /\ \A k \in Kinds : Running(k) ~> (last.done /\ last.run.kind = k)
  /\ (tasks # <<>>) ~> Idle
  /\ []C25_Idle

\* 'Fetch News' failed at the ingestion and nothing else is under way: both
\* flags are down
C25_Witness ==
  /\ Idle
  /\ last.done /\ last.op = "ingest" /\ last.outcome = "rejected"
  /\ ~loading /\ ~fetchingNews
  /\ error = IngestFailedMsg

\* C26 (as claimed): in every reachable state selectedSource is 'all' or a
\* key of the sources map, i.e. one of the tabs on screen.
C26_Claim == selectedSource \in SourceTabs

\* a call of handlePageChange with a page outside 1..totalPages
C27_Step ==
  (Stepped /\ last'.op = "handlePageChange"
     /\ (last'.run.page < 1 \/ last'.run.page > totalPages)) =>
    /\ tasks' = tasks
    /\ last'.done /\ last'.run.calls = <<>>
    /\ UNCHANGED <<currentPage, newsArticles, loading, error, totalPages, totalArticles,
                   searchQuery, selectedSource, sources, fetchingNews>>

\* what the pagination offers to click
C27_State ==
  /\ currentPage = 1 => (~PreviousEnabled /\ (currentPage - 1) \notin ClickablePages)
  /\ currentPage = totalPages => (~NextEnabled /\ (currentPage + 1) \notin ClickablePages)
  /\ totalPages <= 1 => ClickablePages = {}

\* C27: handlePageChange(p) with p < 1 or p > totalPages issues no request
\* and leaves currentPage, newsArticles, loading and error (and the rest of
\* the view) unchanged; Previous is disabled on page 1, Next on the last
\* page, and nothing of the pagination is offered when totalPages <= 1.
C27_OutOfRangeNoOp == []C27_State /\ [][C27_Step]_vars

\* handlePageChange was called with a page past the last one of a list of
\* several pages and returned at once
C27_Witness ==
  /\ last.op = "handlePageChange" /\ last.done
  /\ totalPages >= 2 /\ last.run.page = totalPages + 1
  /\ last.run.calls = <<>>
  /\ tasks = <<>> /\ ~loading

====
